---- MODULE Spec2Model ----
(***************************************************************************)
(* A model of edoc, a terminal pager.                                      *)
(*                                                                         *)
(*   SpecWrap      Contents::split_string_by_width, one character a step,  *)
(*                 then main.rs split_string_by_width on the same line     *)
(*   SpecContents  a Contents object: print() and caller writes to         *)
(*                 cursor_y                                                *)
(*   SpecMain      main(): get_contents, set-up, the event loop, the panic *)
(*                 hook and the end-of-loop cleanup                        *)
(*   SpecStatusBar a StatusBar: StatusBarItem::new, add_item and print     *)
(*                                                                         *)
(* A string is a sequence of one-character strings.  The characters stand  *)
(* for the classes the code tells apart:                                   *)
(*   "a"   a 1-column character                                            *)
(*   "m"   the 1-column character that ends an escape sequence             *)
(*   "W"   a 2-column character (an East Asian wide character)             *)
(*   "z"   a 0-column character (a combining mark), width Some(0)          *)
(*   "E"   ESC, 0x1B                                                       *)
(*   "T"   a control character other than ESC (a tab), width None          *)
(*   "\n"  the line feed                                                   *)
(*   " ", "0".."9"   what the gutter is made of                            *)
(***************************************************************************)
EXTENDS Integers, Sequences, FiniteSets

VARIABLES
    \* ---- Contents::split_string_by_width (contents.rs 82-121)
    s,                        \* the line being split
    split_width,              \* the parameter width
    i,                        \* number of characters of s consumed by the for loop
    result,                   \* Vec<String>
    current_width,
    current_line,
    is_ansi_escape_sequence,
    split_pc,                 \* "scan" | "done" | "panic" | "idle"
    \* ---- main.rs split_string_by_width (main.rs 347-380) on the same line
    main_result,              \* the Vec<String> it returned
    main_split_pc,            \* "ready" | "done" | "idle"
    \* ---- Contents (contents.rs 23-40)
    original_contents,
    contents,                 \* Vec<SplitLine>
    width,
    height,
    cursor_y,
    printed,                  \* the rows the last print() queued to stdout
    print_ret,                \* "ok" | "err" | "panic": how the last print() ended;
                              \* "none" before it and once cursor_y was written since
    cursor_at_call,           \* cursor_y as it was when the last print() was called
    prints,                   \* number of print() calls made
    \* ---- main (main.rs 29-149)
    main_pc,
    events,                   \* events the terminal has queued and main has not read
    event,                    \* the local `event` of the loop body
    main_contents,
    term_width,
    term_height,
    main_cursor_y,
    editor_contents,          \* the local editor_contents: the last get_editor_contents
    screen,                   \* what the last print_screen wrote
    drained,                  \* history: the drain of this iteration dropped an event
    stdout_buf,               \* commands queued on stdout and not flushed
    tty,                      \* the terminal: [alt, raw, cursor]
    calls,                    \* the terminal-restoring calls made so far, in order
    exit_code,
    file,                     \* args.file: "None" or the path given
    file_readable,            \* whether read_to_string(file) succeeds
    stdin,                    \* "tty" | "pipe" | "bad_pipe" (not valid UTF-8)
    stderr,                   \* what main wrote to the standard error
    help_printed,             \* whether print_help() wrote the help text
    \* ---- StatusBar (status_bar.rs 28-40) and the StatusBarItem being built
    items,                    \* Vec<StatusBarItem>: records [name, value]
    item,                     \* the StatusBarItem made by new() and not yet added, if any
    new_value,                \* the argument `value` of the last StatusBarItem::new
    bar_width,
    bar_out,                  \* what the last StatusBar::print queued to stdout
    bar_ret,                  \* "none" | "ok" | "panic": how the last print ended
    adds,                     \* number of add_item calls made
    inserted,                 \* history: the names in the order they were first added
    \* ---- the build
    overflow_checks           \* TRUE: arithmetic overflow panics (debug); FALSE: it wraps

wrap_vars == <<s, split_width, i, result, current_width, current_line,
               is_ansi_escape_sequence, split_pc, main_result, main_split_pc>>
contents_vars == <<original_contents, contents, width, height, cursor_y, printed,
                   print_ret, cursor_at_call, prints>>
main_vars == <<main_pc, events, event, main_contents, term_width, term_height,
               main_cursor_y, editor_contents, screen, drained, stdout_buf, tty,
               calls, exit_code,
               file, file_readable, stdin, stderr, help_printed>>
status_vars == <<items, item, new_value, bar_width, bar_out, bar_ret, adds, inserted>>
vars == <<wrap_vars, contents_vars, main_vars, status_vars, overflow_checks>>

(***************************************************************************)
(* Bounds                                                                  *)
(***************************************************************************)
MaxLineLen == 4
MaxSplitWidth == 3

(***************************************************************************)
(* Helpers                                                                 *)
(***************************************************************************)
Min(a, b) == IF a < b THEN a ELSE b
Max(a, b) == IF a > b THEN a ELSE b

SeqsUpTo(S, n) == UNION {[1..k -> S] : k \in 0..n}

RECURSIVE Concat(_)
Concat(ss) == IF ss = <<>> THEN <<>> ELSE Head(ss) \o Concat(Tail(ss))

(***************************************************************************)
(* unicode_width::UnicodeWidthChar::width.  Control characters have no     *)
(* width (None); the others have 0, 1 or 2 columns.                        *)
(***************************************************************************)
ControlChars == {"E", "T", "\n"}
HasWidth(c) == c \notin ControlChars
CharWidth(c) == CASE c = "W" -> 2
                  [] c = "z" -> 0
                  [] OTHER -> 1

\* Contents::is_escape
is_escape(c) == c = "E"

\* the test that ends an escape sequence, contents.rs 99
EndsEscapeAny(c) == TRUE
EndsEscape(c) == c = "m"

\* the width the character adds, contents.rs 106 and 115
AddedWidthOne(c) == 1
AddedWidth(c) == CharWidth(c)

(***************************************************************************)
(* One turn of the for loop of Contents::split_string_by_width on the      *)
(* character c.  st holds the locals; panicked is set where                *)
(* c.width().unwrap() meets None.                                          *)
(***************************************************************************)
ScanCharDrop(st, c, w) ==
    IF is_escape(c)
    THEN [st EXCEPT !.is_ansi_escape_sequence = TRUE,
                    !.current_line = Append(@, c)]
    ELSE IF st.is_ansi_escape_sequence
    THEN [st EXCEPT !.is_ansi_escape_sequence = ~EndsEscape(c),
                    !.current_line = Append(@, c)]
    ELSE IF ~HasWidth(c)
    THEN [st EXCEPT !.panicked = TRUE]
    ELSE IF st.current_width + AddedWidth(c) > w
    THEN [st EXCEPT !.result = Append(@, st.current_line),
                    !.current_line = <<>>,
                    !.current_width = 0]
    ELSE [st EXCEPT !.current_line = Append(@, c),
                    !.current_width = @ + AddedWidth(c)]

ScanChar(st, c, w) ==
    IF is_escape(c)
    THEN [st EXCEPT !.is_ansi_escape_sequence = TRUE,
                    !.current_line = Append(@, c)]
    ELSE IF st.is_ansi_escape_sequence
    THEN [st EXCEPT !.is_ansi_escape_sequence = ~EndsEscape(c),
                    !.current_line = Append(@, c)]
    ELSE IF ~HasWidth(c)
    THEN [st EXCEPT !.panicked = TRUE]
    ELSE IF st.current_width + AddedWidth(c) > w
    THEN [st EXCEPT !.result = Append(@, st.current_line),
                    !.current_line = <<c>>,
                    !.current_width = AddedWidth(c)]
    ELSE [st EXCEPT !.current_line = Append(@, c),
                    !.current_width = @ + AddedWidth(c)]

ScanInit == [result |-> <<>>, current_width |-> 0, current_line |-> <<>>,
             is_ansi_escape_sequence |-> FALSE, panicked |-> FALSE]

\* result.push(current_line) after the loop, contents.rs 118
ScanFinishNonEmpty(st) ==
    IF st.current_line = <<>> THEN st.result ELSE Append(st.result, st.current_line)
ScanFinish(st) == Append(st.result, st.current_line)

\* Contents::split_string_by_width as a function: the segments, or "panic"
RECURSIVE ScanFrom(_, _, _, _)
ScanFrom(st, str, k, w) ==
    IF st.panicked THEN st
    ELSE IF k > Len(str) THEN st
    ELSE ScanFrom(ScanChar(st, str[k], w), str, k + 1, w)

SplitPanics(str, w) == ScanFrom(ScanInit, str, 1, w).panicked
SplitStringByWidth(str, w) == ScanFinish(ScanFrom(ScanInit, str, 1, w))

(***************************************************************************)
(* What the claims measure: a string with its escape sequences removed     *)
(* (ESC up to and including the first following 'm') and its display width *)
(***************************************************************************)
\* TRUE iff a reader that has consumed str[1..k] is inside an escape sequence
RECURSIVE InsideEscapeAfter(_, _)
InsideEscapeAfter(str, k) ==
    IF k = 0 THEN FALSE
    ELSE IF str[k] = "E" THEN TRUE
    ELSE IF InsideEscapeAfter(str, k - 1) THEN str[k] # "m"
    ELSE FALSE

\* the positions of str that lie outside every escape sequence
VisibleIndices(str) ==
    {k \in 1..Len(str) : str[k] # "E" /\ ~InsideEscapeAfter(str, k - 1)}

RECURSIVE StripFrom(_, _)
StripFrom(str, k) ==
    IF k > Len(str) THEN <<>>
    ELSE IF k \in VisibleIndices(str) THEN <<str[k]>> \o StripFrom(str, k + 1)
    ELSE StripFrom(str, k + 1)
StripEscapes(str) == StripFrom(str, 1)

RECURSIVE WidthSum(_)
WidthSum(str) ==
    IF str = <<>> THEN 0
    ELSE (IF HasWidth(Head(str)) THEN CharWidth(Head(str)) ELSE 0) + WidthSum(Tail(str))
DisplayWidth(str) == WidthSum(StripEscapes(str))

\* how many characters of non-zero width the string shows
WideCount(str) ==
    Cardinality({k \in VisibleIndices(str) : HasWidth(str[k]) /\ CharWidth(str[k]) > 0})

(***************************************************************************)
(* The states the specifications that do not use a component leave it in   *)
(***************************************************************************)
WrapIdle ==
    /\ s = <<>> /\ split_width = 0 /\ i = 0 /\ result = <<>>
    /\ current_width = 0 /\ current_line = <<>>
    /\ is_ansi_escape_sequence = FALSE /\ split_pc = "idle"
    /\ main_result = <<>> /\ main_split_pc = "idle"

ContentsIdle ==
    /\ original_contents = <<>> /\ contents = <<>> /\ width = 0 /\ height = 0
    /\ cursor_y = 0 /\ printed = <<>> /\ print_ret = "none"
    /\ cursor_at_call = 0 /\ prints = 0

MainIdle ==
    /\ main_pc = "idle" /\ events = <<>> /\ event = "none"
    /\ main_contents = <<>> /\ term_width = 0 /\ term_height = 0
    /\ main_cursor_y = 0 /\ screen = <<>> /\ stdout_buf = <<>>
    /\ tty = [alt |-> FALSE, raw |-> FALSE, cursor |-> TRUE]
    /\ calls = <<>> /\ exit_code = "running"
    /\ file = "None" /\ file_readable = FALSE /\ stdin = "pipe"
    /\ stderr = <<>> /\ help_printed = FALSE
    /\ editor_contents = <<>> /\ drained = FALSE

StatusIdle ==
    /\ items = <<>> /\ item = <<>> /\ new_value = <<>> /\ bar_width = 0
    /\ bar_out = <<>> /\ bar_ret = "idle" /\ adds = 0 /\ inserted = <<>>

(***************************************************************************)
(* main.rs split_string_by_width, the wrapper main uses                    *)
(***************************************************************************)
\* UnicodeWidthStr::width of a string of characters that all have a width
StrWidth(str) == WidthSum(str)

\* one turn of the for loop of main.rs split_string_by_width, at index k
MainSplitStepNoLookahead(st, value, k, w) ==
    LET char == value[k] IN
    IF ~HasWidth(char) THEN st
    ELSE LET cur == IF StrWidth(st.current_string) + CharWidth(char) <= w
                    THEN Append(st.current_string, char)
                    ELSE st.current_string
         IN IF StrWidth(cur) = w \/ k = Len(value)
            THEN [result |-> Append(st.result, cur), current_string |-> <<>>]
            ELSE [result |-> st.result, current_string |-> cur]
MainSplitStep(st, value, k, w) ==
    LET char == value[k] IN
    IF ~HasWidth(char) THEN st
    ELSE LET cur == IF StrWidth(st.current_string) + CharWidth(char) <= w
                    THEN Append(st.current_string, char)
                    ELSE st.current_string
             pushed == [result |-> Append(st.result, cur), current_string |-> <<>>]
             kept == [result |-> st.result, current_string |-> cur]
         IN IF StrWidth(cur) = w \/ k = Len(value) THEN pushed
            ELSE IF ~HasWidth(value[k + 1]) THEN kept
            ELSE IF w < StrWidth(cur) + CharWidth(value[k + 1]) THEN pushed
            ELSE kept

RECURSIVE MainSplitFrom(_, _, _, _)
MainSplitFrom(st, value, k, w) ==
    IF k > Len(value) THEN st
    ELSE MainSplitFrom(MainSplitStep(st, value, k, w), value, k + 1, w)

\* main.rs split_string_by_width
split_string_by_width(value, w) ==
    MainSplitFrom([result |-> <<>>, current_string |-> <<>>], value, 1, w).result

(***************************************************************************)
(* SpecWrap: one call of Contents::split_string_by_width(s, split_width)   *)
(***************************************************************************)
LineChars == {"a", "m", "W", "z", "E", "T"}

WrapInit ==
    /\ s \in SeqsUpTo(LineChars, MaxLineLen)
    /\ split_width \in 1..MaxSplitWidth
    /\ i = 0
    /\ result = ScanInit.result
    /\ current_width = ScanInit.current_width
    /\ current_line = ScanInit.current_line
    /\ is_ansi_escape_sequence = ScanInit.is_ansi_escape_sequence
    /\ split_pc = "scan"
    /\ main_result = <<>>
    /\ main_split_pc = "ready"
    /\ ContentsIdle /\ MainIdle /\ StatusIdle
    /\ overflow_checks = FALSE

ScanLocals == [result |-> result, current_width |-> current_width,
               current_line |-> current_line,
               is_ansi_escape_sequence |-> is_ansi_escape_sequence,
               panicked |-> FALSE]

\* one iteration of the for loop, contents.rs 90-116
ScanStep ==
    /\ split_pc = "scan"
    /\ i < Len(s)
    /\ LET st == ScanChar(ScanLocals, s[i + 1], split_width) IN
         /\ result' = st.result
         /\ current_width' = st.current_width
         /\ current_line' = st.current_line
         /\ is_ansi_escape_sequence' = st.is_ansi_escape_sequence
         /\ split_pc' = IF st.panicked THEN "panic" ELSE "scan"
         /\ i' = IF st.panicked THEN i ELSE i + 1
    /\ UNCHANGED <<s, split_width, main_result, main_split_pc, contents_vars,
                   main_vars, status_vars, overflow_checks>>

\* the loop is over: push the last segment and return, contents.rs 118-120
ScanReturn ==
    /\ split_pc = "scan"
    /\ i = Len(s)
    /\ result' = ScanFinish(ScanLocals)
    /\ split_pc' = "done"
    /\ UNCHANGED <<s, split_width, i, current_width, current_line,
                   is_ansi_escape_sequence, main_result, main_split_pc,
                   contents_vars, main_vars, status_vars, overflow_checks>>

\* the same line and width are given to main.rs split_string_by_width once
\* the call of Contents::split_string_by_width is over
MainSplitCall ==
    /\ split_pc \in {"done", "panic"}
    /\ main_split_pc = "ready"
    /\ main_result' = split_string_by_width(s, split_width)
    /\ main_split_pc' = "done"
    /\ UNCHANGED <<s, split_width, i, result, current_width, current_line,
                   is_ansi_escape_sequence, split_pc, contents_vars, main_vars,
                   status_vars, overflow_checks>>

WrapNext == ScanStep \/ ScanReturn \/ MainSplitCall

SpecWrap == WrapInit /\ [][WrapNext]_vars

(***************************************************************************)
(* C1. Lossless wrap: the segments split_string_by_width returns,          *)
(* concatenated in order, are the line s itself, and so also s with its    *)
(* escape sequences removed.                                               *)
(***************************************************************************)
C1_LosslessWrap ==
    split_pc = "done" =>
        /\ Concat(result) = s
        /\ StripEscapes(Concat(result)) = StripEscapes(s)

C1_Witness ==
    /\ split_pc = "done"
    /\ Len(result) >= 3
    /\ \E k \in 1..Len(s) : s[k] = "W"
    /\ \E k \in 1..Len(s) : s[k] = "E"

(***************************************************************************)
(* C2, as claimed: every returned segment, escape sequences removed, is    *)
(* at most split_width columns wide.                                       *)
(***************************************************************************)
C2_WidthBoundAsClaimed ==
    split_pc = "done" =>
        \A k \in 1..Len(result) : DisplayWidth(result[k]) <= split_width

(***************************************************************************)
(* C2, amended: every returned segment, escape sequences removed, is at    *)
(* most split_width columns wide, except that a segment may hold a single  *)
(* character of non-zero width that is itself wider than split_width (a    *)
(* 2-column character when split_width is 1).                              *)
(***************************************************************************)
C2_WidthBound ==
    split_pc = "done" =>
        \A k \in 1..Len(result) :
            \/ DisplayWidth(result[k]) <= split_width
            \/ /\ WideCount(result[k]) = 1
               /\ DisplayWidth(result[k]) = 2
               /\ split_width = 1

C2_Witness ==
    /\ split_pc = "done"
    /\ split_width = 1
    /\ \E k \in 1..Len(result) : DisplayWidth(result[k]) = 2
    /\ \E k \in 1..Len(result) : DisplayWidth(result[k]) = 1

(***************************************************************************)
(* C3, as claimed: a control character other than ESC met outside an       *)
(* escape sequence is appended to the current segment, adds nothing to the *)
(* running width, and the scan goes on.                                    *)
(***************************************************************************)
C3_ControlCharPassedThrough ==
    [][(/\ split_pc = "scan"
        /\ i < Len(s)
        /\ ~is_escape(s[i + 1])
        /\ ~is_ansi_escape_sequence
        /\ ~HasWidth(s[i + 1]))
       => (/\ split_pc' = "scan"
           /\ i' = i + 1
           /\ current_line' = Append(current_line, s[i + 1])
           /\ current_width' = current_width
           /\ result' = result)]_wrap_vars

(***************************************************************************)
(* C4. Escape atomicity: a step that consumes ESC, or any character while  *)
(* the scanner is inside an escape sequence, neither flushes a segment nor *)
(* changes the running width; and no boundary between two returned         *)
(* segments falls between an ESC and the first 'm' after it.               *)
(***************************************************************************)
SegmentBoundaries(segs) ==
    {Len(Concat(SubSeq(segs, 1, k))) : k \in 1..(Len(segs) - 1)}

C4_NoBoundaryInsideEscape ==
    split_pc = "done" =>
        \A b \in SegmentBoundaries(result) : ~InsideEscapeAfter(s, b)

C4_EscapeAtomicity ==
    /\ [][(/\ split_pc = "scan"
           /\ i < Len(s)
           /\ (is_escape(s[i + 1]) \/ is_ansi_escape_sequence))
          => (/\ result' = result
              /\ current_width' = current_width
              /\ current_line' = Append(current_line, s[i + 1])
              /\ split_pc' = "scan")]_wrap_vars
    /\ [](C4_NoBoundaryInsideEscape)

C4_Witness ==
    /\ split_pc = "done"
    /\ Len(result) >= 2
    /\ \E k \in 1..(Len(result) - 1) :
         \E p \in 2..Len(result[k]) :
            /\ result[k][p] = "E"
            /\ \E q \in (p + 1)..Len(result[k]) : result[k][q] = "m"


\* C23 for one call: a call that returns returns at least one segment, and
\* exactly one empty segment for the empty line
C23_AtLeastOneSegment ==
    split_pc = "done" =>
        /\ Len(result) >= 1
        /\ s = <<>> => result = << <<>> >>


(***************************************************************************)
(* C25.  The two wrappers agree: on a line that is not empty, has no       *)
(* escape sequence and only characters 1 or 2 columns wide, and at a width *)
(* of 2 or more, main.rs split_string_by_width and                         *)
(* Contents::split_string_by_width return the same segments.               *)
(***************************************************************************)
PlainLine(str) ==
    /\ str # <<>>
    /\ \A k \in 1..Len(str) :
         ~is_escape(str[k]) /\ HasWidth(str[k]) /\ CharWidth(str[k]) \in {1, 2}

C25_WrappersAgree ==
    (/\ split_pc = "done"
     /\ main_split_pc = "done"
     /\ PlainLine(s)
     /\ split_width >= 2)
        => main_result = result

C25_Witness ==
    /\ split_pc = "done"
    /\ main_split_pc = "done"
    /\ PlainLine(s)
    /\ split_width = 3
    /\ WideCount(s) >= 1
    /\ Len(result) >= 2
    /\ main_result = result
    /\ \E k \in 1..Len(result) : DisplayWidth(result[k]) < split_width /\ k < Len(result)


(***************************************************************************)
(* SpecContents: a Contents object                                         *)
(***************************************************************************)
MaxDocLen == 2
MaxWidth == 4
MaxHeight == 2
MaxCursorY == 3
MaxPrints == 2

\* u16 values are kept modulo 2^16
U16 == 65536

\* str::lines: the pieces between line feeds, without a last empty piece
RECURSIVE SplitOnLf(_, _)
SplitOnLf(str, cur) ==
    IF str = <<>> THEN <<cur>>
    ELSE IF Head(str) = "\n" THEN <<cur>> \o SplitOnLf(Tail(str), <<>>)
    ELSE SplitOnLf(Tail(str), Append(cur, Head(str)))

Lines(str) ==
    LET parts == SplitOnLf(str, <<>>) IN
    IF parts[Len(parts)] = <<>> THEN SubSeq(parts, 1, Len(parts) - 1) ELSE parts

\* usize::to_string / u16::to_string
DigitChar(d) == <<"0", "1", "2", "3", "4", "5", "6", "7", "8", "9">>[d + 1]
RECURSIVE ToString(_)
ToString(n) == IF n < 10 THEN <<DigitChar(n)>>
               ELSE Append(ToString(n \div 10), DigitChar(n % 10))
NumDigits(n) == Len(ToString(n))

Spaces(n) == [k \in 1..n |-> " "]

\* format!("{:>w$} ", n)
FormatLineNumberUnpadded(n, w) == Append(ToString(n), " ")
FormatLineNumber(n, w) ==
    Spaces(Max(0, w - NumDigits(n))) \o ToString(n) \o <<" ">>

(***************************************************************************)
(* Contents::update_contents.  line_width is computed in usize: when it    *)
(* would be negative the subtraction panics in a build with overflow       *)
(* checks and wraps otherwise, and `as u16` keeps the low 16 bits.         *)
(***************************************************************************)
RawLineWidth(oc, w) == w - NumDigits(Len(Lines(oc))) - 1
LineWidthOverflows(oc, w) == RawLineWidth(oc, w) < 0
LineWidth(oc, w) == RawLineWidth(oc, w) % U16

\* the SplitLines of line k of the document
SplitLinesOf(lines, k, lw) ==
    LET pieces == SplitStringByWidth(lines[k], lw) IN
    [j \in 1..Len(pieces) |->
        [line_number |-> k, line_index |-> j - 1, contents |-> pieces[j]]]

\* the for loop over the lines, contents.rs 247-262, from line k on
RECURSIVE LayoutFrom(_, _, _)
LayoutFrom(lines, k, lw) ==
    IF k > Len(lines) THEN [segs |-> <<>>, panicked |-> FALSE]
    ELSE IF SplitPanics(lines[k], lw) THEN [segs |-> <<>>, panicked |-> TRUE]
    ELSE LET rest == LayoutFrom(lines, k + 1, lw) IN
         [segs |-> SplitLinesOf(lines, k, lw) \o rest.segs,
          panicked |-> rest.panicked]

\* the buffer update_contents starts from: self.contents as it is
UpdateStartsFrom(c) == c

update_contents(c, oc, w, ovf) ==
    IF LineWidthOverflows(oc, w) /\ ovf
    THEN [contents |-> c, panicked |-> TRUE]
    ELSE LET lay == LayoutFrom(Lines(oc), 1, LineWidth(oc, w)) IN
         [contents |-> UpdateStartsFrom(c) \o lay.segs, panicked |-> lay.panicked]

\* Contents::get_display_area, with cursor_x = 0
get_display_area(w, h, cy) == <<0, cy, (0 + w) % U16, (cy + h) % U16>>

\* the clamping of cursor_y, contents.rs 148-163
ClampCursor(c, h, cy) ==
    LET len == Len(c) % U16
        cy1 == IF h > len THEN 0 ELSE cy
        max_cursor_y == IF len > h THEN len - h ELSE 0
    IN IF cy1 > max_cursor_y THEN max_cursor_y ELSE cy1

\* the row print() queues for the segment at buffer position k (0-based k - 1);
\* the Dim and Reset attributes printed around the line number take no column
\* and are left out of prefix
PrintedRow(c, k, line_number_width) ==
    [index |-> k - 1,
     prefix |-> IF c[k].line_index = 0
                THEN FormatLineNumber(c[k].line_number, line_number_width)
                ELSE Spaces(line_number_width + 1),
     text |-> c[k].contents]

\* the rows of the for loop of print(), contents.rs 172-205
PrintedRows(c, area) ==
    LET line_number_width == NumDigits(c[Len(c)].line_number)
        visible == {k \in 1..Len(c) : ~((k - 1) < area[2] \/ (k - 1) >= area[4])}
        RECURSIVE Rows(_)
        Rows(k) == IF k > Len(c) THEN <<>>
                   ELSE IF k \in visible
                   THEN <<PrintedRow(c, k, line_number_width)>> \o Rows(k + 1)
                   ELSE Rows(k + 1)
    IN Rows(1)

(***************************************************************************)
(* Contents::print.  fail is what stdout does: "never" fails, fails at     *)
(* "clear" (contents.rs 145-146, before cursor_y is clamped), or fails at  *)
(* the first "row" of the for loop (contents.rs 179).                      *)
(***************************************************************************)
PrintOutcome(c, oc, w, h, cy, ovf, fail) ==
    LET upd == update_contents(c, oc, w, ovf) IN
    IF upd.panicked
    THEN [contents |-> upd.contents, cursor_y |-> cy, printed |-> <<>>, ret |-> "panic"]
    ELSE IF fail = "clear"
    THEN [contents |-> upd.contents, cursor_y |-> cy, printed |-> <<>>, ret |-> "err"]
    ELSE LET cy2 == ClampCursor(upd.contents, h, cy)
             area == get_display_area(w, h, cy2)
         IN IF Len(upd.contents) = 0
            THEN [contents |-> upd.contents, cursor_y |-> cy2, printed |-> <<>>,
                  ret |-> "panic"]
            ELSE LET rows == PrintedRows(upd.contents, area) IN
                 IF fail = "row" /\ rows # <<>>
                 THEN [contents |-> upd.contents, cursor_y |-> cy2,
                       printed |-> <<>>, ret |-> "err"]
                 ELSE [contents |-> upd.contents, cursor_y |-> cy2,
                       printed |-> rows, ret |-> "ok"]

\* the documents: every short one, and some longer ones (ten lines for a
\* two-digit gutter, a tab, wrapped lines among others, an empty line)
DocChars == {"a", "W", "\n"}
TenLines == <<"a", "\n", "a", "\n", "a", "\n", "a", "\n", "a", "\n",
              "a", "\n", "a", "\n", "a", "\n", "a", "\n", "a", "W">>
LongerDocs == {TenLines,
               <<"T">>,
               <<"a", "\n", "a", "T">>,
               <<"a", "a", "\n", "a">>,
               <<"a", "W", "a", "\n", "\n", "W">>,
               <<"a", "\n", "a", "\n", "a">>}
Docs == SeqsUpTo(DocChars, MaxDocLen) \cup LongerDocs

\* Contents::new
ContentsInit ==
    /\ original_contents \in Docs
    /\ contents = <<>>
    /\ width \in 1..MaxWidth
    /\ height \in 1..MaxHeight
    /\ cursor_y = 0
    /\ printed = <<>>
    /\ print_ret = "none"
    /\ cursor_at_call = 0
    /\ prints = 0
    \* the two builds differ only where the subtraction overflows
    /\ overflow_checks \in (IF LineWidthOverflows(original_contents, width)
                            THEN BOOLEAN ELSE {FALSE})
    /\ WrapIdle /\ MainIdle /\ StatusIdle

\* a call of print()
print ==
    /\ print_ret # "panic"
    /\ prints < MaxPrints
    /\ \E fail \in {"never", "clear", "row"} :
         LET out == PrintOutcome(contents, original_contents, width, height,
                                 cursor_y, overflow_checks, fail) IN
         /\ contents' = out.contents
         /\ cursor_y' = out.cursor_y
         /\ printed' = out.printed
         /\ print_ret' = out.ret
    /\ cursor_at_call' = cursor_y
    /\ prints' = prints + 1
    /\ UNCHANGED <<original_contents, width, height, wrap_vars, main_vars,
                   status_vars, overflow_checks>>

\* the caller writes the public field cursor_y
SetCursorY ==
    /\ print_ret # "panic"
    /\ \E v \in 0..MaxCursorY : cursor_y' = v
    /\ print_ret' = "none"
    /\ UNCHANGED <<original_contents, contents, width, height, printed,
                   cursor_at_call, prints, wrap_vars, main_vars, status_vars,
                   overflow_checks>>

ContentsNext == print \/ SetCursorY

SpecContents == ContentsInit /\ [][ContentsNext]_vars

\* the layout of the document at a width: what update_contents appends
Layout(oc, w) == LayoutFrom(Lines(oc), 1, LineWidth(oc, w)).segs

(***************************************************************************)
(* C5, as claimed.  Clamp law: when print() returns, cursor_y is           *)
(* min(c, max(0, N - h)), c being cursor_y at the call, h the height and N *)
(* the number of physical segments of original_contents at the width; so   *)
(* cursor_y is 0 whenever N <= h.                                          *)
(***************************************************************************)
C5_ClampLaw ==
    print_ret = "ok" =>
        LET N == Len(Layout(original_contents, width)) IN
        /\ cursor_y = Min(cursor_at_call, Max(0, N - height))
        /\ (N <= height => cursor_y = 0)

(***************************************************************************)
(* C6, as claimed.  After every print() the buffer `contents` is the       *)
(* layout of original_contents at the width, however many calls preceded.  *)
(***************************************************************************)
C6_BufferRebuilt ==
    print_ret = "ok" => contents = Layout(original_contents, width)

(***************************************************************************)
(* C7, as claimed.  In every reachable state the line numbers of           *)
(* `contents` start at 1 and never decrease along the buffer, and the      *)
(* segments of one line number are consecutive with line_index 0, 1, 2...  *)
(***************************************************************************)
C7_ContiguousRuns ==
    /\ contents # <<>> => contents[1].line_number = 1
    /\ \A k \in 1..Len(contents) :
         IF k = 1 \/ contents[k - 1].line_number # contents[k].line_number
         THEN contents[k].line_index = 0
         ELSE contents[k].line_index = contents[k - 1].line_index + 1
    /\ \A k \in 2..Len(contents) :
         contents[k - 1].line_number <= contents[k].line_number
    /\ \A j, k \in 1..Len(contents) :
         (j < k /\ contents[j].line_number = contents[k].line_number)
            => \A l \in j..k : contents[l].line_number = contents[j].line_number

(***************************************************************************)
(* C14, as claimed.  update_contents fails, and produces no layout,        *)
(* whenever width - gutterWidth - 1 <= 0, gutterWidth being the number of  *)
(* digits of the number of lines: once print() was called at such a width  *)
(* the call has panicked in update_contents and the buffer is empty.       *)
(***************************************************************************)
C14_FailsWithoutWrapWidth ==
    (prints > 0 /\ RawLineWidth(original_contents, width) <= 0)
        => (print_ret = "panic" /\ contents = <<>>)



(***************************************************************************)
(* C19, as claimed.  print() emits one row for exactly the segments whose  *)
(* index i in the buffer satisfies cursor_y <= i < cursor_y + height       *)
(* (cursor_y as clamped), in buffer order and each once; so it emits       *)
(* exactly min(N, height) rows, N being the number of physical segments of *)
(* the document.                                                           *)
(***************************************************************************)
C19_WindowOfBuffer ==
    print_ret = "ok" =>
        /\ \A k \in 1..Len(printed) :
             /\ printed[k].index = cursor_y + k - 1
             /\ printed[k].text = contents[printed[k].index + 1].contents
        /\ \A idx \in 0..(Len(contents) - 1) :
             (cursor_y <= idx /\ idx < cursor_y + height)
                <=> \E k \in 1..Len(printed) : printed[k].index = idx

C19_WindowRows ==
    /\ C19_WindowOfBuffer
    /\ print_ret = "ok" =>
          Len(printed) = Min(Len(Layout(original_contents, width)), height)

(***************************************************************************)
(* C20.  Every row print() emits starts with a prefix of gutterWidth + 1   *)
(* columns, gutterWidth being the number of digits of the number of lines  *)
(* of the document (what update_contents takes from the width): blanks,    *)
(* the line number flush right and one space for a segment with            *)
(* line_index = 0, and gutterWidth + 1 blanks for the others; and the      *)
(* width print() pads to is that gutterWidth.                              *)
(***************************************************************************)
C20_GutterPrefix ==
    print_ret = "ok" =>
        LET gutterWidth == NumDigits(Len(Lines(original_contents))) IN
        /\ NumDigits(contents[Len(contents)].line_number) = gutterWidth
        /\ RawLineWidth(original_contents, width) = width - gutterWidth - 1
        /\ \A k \in 1..Len(printed) :
             LET row == printed[k]
                 seg == contents[row.index + 1]
                 digits == ToString(seg.line_number)
             IN /\ Len(row.prefix) = gutterWidth + 1
                /\ IF seg.line_index = 0
                   THEN /\ row.prefix[gutterWidth + 1] = " "
                        /\ SubSeq(row.prefix, gutterWidth - Len(digits) + 1,
                                  gutterWidth) = digits
                        /\ \A j \in 1..(gutterWidth - Len(digits)) :
                             row.prefix[j] = " "
                   ELSE \A j \in 1..(gutterWidth + 1) : row.prefix[j] = " "

C20_Witness ==
    /\ print_ret = "ok"
    /\ original_contents = TenLines
    /\ Len(printed) = 2
    /\ printed[1].prefix = <<" ", "2", " ">>


(***************************************************************************)
(* C21, as claimed.  For every document and every width, every segment of  *)
(* the buffer update_contents builds has, escape sequences left out, a     *)
(* display width of at most width - gutterWidth, gutterWidth being the     *)
(* number of digits of the number of lines.                                *)
(***************************************************************************)
C21_SegmentsFitBesideGutter ==
    \A k \in 1..Len(contents) :
        DisplayWidth(contents[k].contents)
            <= width - NumDigits(Len(Lines(original_contents)))

\* the same where the wrap width width - gutterWidth - 1 is positive
C21_FitWithPositiveWrapWidth ==
    RawLineWidth(original_contents, width) > 0 => C21_SegmentsFitBesideGutter


(***************************************************************************)
(* C23.  split_string_by_width returns at least one segment, and for the   *)
(* empty line exactly one empty segment; so when update_contents has       *)
(* returned every line 1..L of the document has a segment with             *)
(* line_index 0 in the buffer, an empty line has none but empty segments   *)
(* with line_index 0, and after the first call exactly one.                *)
(***************************************************************************)
SegmentsOfLine(n) == {k \in 1..Len(contents) : contents[k].line_number = n}

C23_EveryLineHasASegment ==
    print_ret \in {"ok", "err"} =>
        LET lines == Lines(original_contents) IN
        \A n \in 1..Len(lines) :
            /\ Len(SplitStringByWidth(lines[n], LineWidth(original_contents, width)))
                  >= 1
            /\ \E k \in SegmentsOfLine(n) : contents[k].line_index = 0
            /\ lines[n] = <<>> =>
                  /\ \A k \in SegmentsOfLine(n) :
                        contents[k].contents = <<>> /\ contents[k].line_index = 0
                  /\ prints = 1 => Cardinality(SegmentsOfLine(n)) = 1

C23_Witness ==
    /\ print_ret = "ok"
    /\ prints = 1
    /\ Len(contents) >= 3
    /\ \E k \in 1..Len(contents) :
         /\ contents[k].contents = <<>>
         /\ Lines(original_contents)[contents[k].line_number] = <<>>


(***************************************************************************)
(* C26, as claimed.  print() does not panic for any source text at a width *)
(* that leaves a positive wrap width; for the empty text, which has no     *)
(* line, a call that meets no write error emits no row and leaves cursor_y *)
(* at 0.                                                                   *)
(***************************************************************************)
C26_PrintNeverPanics ==
    RawLineWidth(original_contents, width) > 0 =>
        /\ print_ret # "panic"
        /\ (print_ret = "ok" /\ original_contents = <<>>)
              => (printed = <<>> /\ cursor_y = 0)

\* the claim for the empty text alone
C26_EmptyTextPrints ==
    (original_contents = <<>> /\ RawLineWidth(original_contents, width) > 0)
        => print_ret # "panic"

\* the same for the texts that have a line and no width-less character
\* outside an escape sequence
C26_NoPanicOnPlainText ==
    (/\ RawLineWidth(original_contents, width) > 0
     /\ Lines(original_contents) # <<>>
     /\ \A k \in 1..Len(original_contents) :
          original_contents[k] = "\n" \/ HasWidth(original_contents[k]))
        => print_ret # "panic"


(***************************************************************************)
(* main.rs: the free functions                                             *)
(***************************************************************************)
\* usize arithmetic that wraps adds 2^64; the model's integers are 32 bits
\* wide, so UsizeWrap stands for 2^64: larger than any width in the model
UsizeWrap == 1073741824

\* main.rs get_display_area
main_get_display_area(w, h, cx, cy) == <<cx, cy, (cx + w) % U16, (cy + h) % U16>>

\* format!("{:width$} ", line_number): numbers are right-justified
MainFormatLineNumber(n, w) ==
    Spaces(Max(0, w - NumDigits(n))) \o ToString(n) \o <<" ">>

\* the text get_editor_contents builds for one line, main.rs 273-302
EditorLine(line, line_number, digits, line_width) ==
    LET split_line == split_string_by_width(line, line_width)
        first == MainFormatLineNumber(line_number, digits)
                   \o (IF split_line = <<>> THEN <<>> ELSE split_line[1])
                   \o <<"\n">>
        RECURSIVE Rest(_)
        Rest(j) == IF j > Len(split_line) THEN <<>>
                   ELSE Spaces(digits + 1) \o split_line[j] \o <<"\n">> \o Rest(j + 1)
    IN first \o Rest(2)

RECURSIVE EditorText(_, _, _, _)
EditorText(lines, k, digits, line_width) ==
    IF k > Len(lines) THEN <<>>
    ELSE EditorLine(lines[k], k, digits, line_width)
            \o EditorText(lines, k + 1, digits, line_width)

\* skip(n) and take(n) of an iterator
Skip(seq, n) == SubSeq(seq, n + 1, Len(seq))
Take(seq, n) == SubSeq(seq, 1, Min(n, Len(seq)))

RECURSIVE JoinWithLf(_)
JoinWithLf(rows) ==
    IF rows = <<>> THEN <<>> ELSE Head(rows) \o <<"\n">> \o JoinWithLf(Tail(rows))

\* String::pop
Pop(str) == IF str = <<>> THEN <<>> ELSE SubSeq(str, 1, Len(str) - 1)

\* main.rs get_editor_contents: [panicked, text]
get_editor_contents(doc, w, h, cx, cy, ovf) ==
    LET lines == Lines(doc)
        line_number_digits == NumDigits(Len(lines))
        raw == w - line_number_digits - 1
        line_width == IF raw < 0 THEN UsizeWrap + raw ELSE raw
    IN IF raw < 0 /\ ovf THEN [panicked |-> TRUE, text |-> <<>>]
       ELSE LET all == EditorText(lines, 1, line_number_digits, line_width)
                area == main_get_display_area(w, h, cx, cy)
                rows == Take(Skip(Lines(all), area[2]), area[4] - area[2])
                cut == [r \in 1..Len(rows) |->
                          Take(Skip(rows[r], area[1]), area[3] - area[1])]
            IN [panicked |-> FALSE, text |-> Pop(JoinWithLf(cut))]

\* main.rs print_screen: the text it writes
RECURSIVE ScreenText(_, _)
ScreenText(lines, last) ==
    IF lines = <<>> THEN <<>>
    ELSE Head(lines) \o (IF Head(lines) # last THEN <<"\n">> ELSE <<>>)
            \o ScreenText(Tail(lines), last)
print_screen(text) ==
    LET lines == Lines(text) IN
    IF lines = <<>> THEN <<>> ELSE ScreenText(lines, lines[Len(lines)])

(***************************************************************************)
(* The terminal.  queue! appends a command to the stdout buffer; a flush   *)
(* sends the buffer to the terminal; enable_raw_mode and disable_raw_mode  *)
(* act at once.  The commands that restore the terminal are taken to       *)
(* succeed; read, poll, execute! and print_screen may return an error.     *)
(***************************************************************************)
ApplyCommand(t, cmd) ==
    CASE cmd = "EnterAlternateScreen" -> [t EXCEPT !.alt = TRUE]
      [] cmd = "LeaveAlternateScreen" -> [t EXCEPT !.alt = FALSE]
      [] cmd = "Hide" -> [t EXCEPT !.cursor = FALSE]
      [] cmd = "Show" -> [t EXCEPT !.cursor = TRUE]
      [] OTHER -> t

RECURSIVE ApplyAll(_, _)
ApplyAll(t, cmds) ==
    IF cmds = <<>> THEN t ELSE ApplyAll(ApplyCommand(t, Head(cmds)), Tail(cmds))

\* io: [tty, buf, calls]
RunCall(io, call) ==
    CASE call = "Show" ->
            [io EXCEPT !.buf = Append(@, "Show"), !.calls = Append(@, call)]
      [] call = "LeaveAlternateScreen" ->
            [io EXCEPT !.buf = Append(@, "LeaveAlternateScreen"),
                       !.calls = Append(@, call)]
      [] call = "disable_raw_mode" ->
            [io EXCEPT !.tty.raw = FALSE, !.calls = Append(@, call)]
      [] call = "flush" ->
            [io EXCEPT !.tty = ApplyAll(io.tty, io.buf), !.buf = <<>>,
                       !.calls = Append(@, call)]
      [] call = "default_hook" ->
            [io EXCEPT !.calls = Append(@, call)]

RECURSIVE RunCalls(_, _)
RunCalls(io, cs) ==
    IF cs = <<>> THEN io ELSE RunCalls(RunCall(io, Head(cs)), Tail(cs))

\* the panic hook, main.rs 56-62
PanicHookUnordered == <<"default_hook", "disable_raw_mode", "Show",
                        "LeaveAlternateScreen", "flush">>
PanicHook == <<"Show", "disable_raw_mode", "LeaveAlternateScreen", "flush",
               "default_hook">>

\* the cleanup after the loop, main.rs 143-147
Cleanup == <<"Show", "disable_raw_mode", "LeaveAlternateScreen">>

\* the process ends: the runtime flushes stdout
ProcessEnd(io) == [io EXCEPT !.tty = ApplyAll(io.tty, io.buf), !.buf = <<>>]

\* a panic: the hook runs, the stack unwinds out of main, the process ends
Panic(io) == ProcessEnd(RunCalls(io, PanicHook))

\* main.rs 50-53 and 64
EnterTerminal(io) ==
    LET raw == [io EXCEPT !.buf = Append(@, "EnterAlternateScreen"),
                          !.tty.raw = TRUE]
        hid == [raw EXCEPT !.buf = Append(@, "Hide")]
    IN [hid EXCEPT !.tty = ApplyAll(hid.tty, Append(hid.buf, "Clear")), !.buf = <<>>]

IoNow == [tty |-> tty, buf |-> stdout_buf, calls |-> calls]

SetIo(io) ==
    /\ tty' = io.tty
    /\ stdout_buf' = io.buf
    /\ calls' = io.calls


(***************************************************************************)
(* SpecMain: main()                                                        *)
(***************************************************************************)
MaxQueue == 2

EventKinds == {"CtrlW", "Up", "Down", "FocusGained", "FocusLost", "Mouse",
               "Paste", "Resize", "OtherKey"}
TodoEvents == {"FocusGained", "FocusLost", "Mouse", "Paste", "Resize"}

\* the documents and terminal sizes main is run on
MainDocs == {<<"a", "\n", "a", "\n", "a">>, <<"a", "a", "a", "\n", "a">>}
TermWidths == {1, 3}
TermHeights == {2, 4}

MainOverflows(doc, w) == w - NumDigits(Len(Lines(doc))) - 1 < 0

MainInit ==
    /\ main_pc = "start"
    /\ events = <<>>
    /\ event = "none"
    /\ main_contents \in MainDocs
    /\ term_width \in TermWidths
    /\ term_height \in TermHeights
    /\ main_cursor_y = 0
    /\ editor_contents = <<>>
    /\ screen = <<>>
    /\ drained = FALSE
    /\ stdout_buf = <<>>
    /\ tty = [alt |-> FALSE, raw |-> FALSE, cursor |-> TRUE]
    /\ calls = <<>>
    /\ exit_code = "running"
    /\ file \in {"None", "f"}
    /\ file_readable \in (IF file = "None" THEN {FALSE} ELSE BOOLEAN)
    /\ stdin \in (IF file = "None" THEN {"tty", "pipe", "bad_pipe"} ELSE {"tty"})
    /\ stderr = <<>>
    /\ help_printed = FALSE
    \* the two builds differ only where the subtraction overflows
    /\ overflow_checks \in (IF MainOverflows(main_contents, term_width)
                            THEN BOOLEAN ELSE {FALSE})
    /\ WrapIdle /\ ContentsIdle /\ StatusIdle

MainConfig == <<main_contents, term_width, term_height, overflow_checks,
                file, file_readable, stdin>>

\* what the start of main writes outside the terminal session
start_out == <<stderr, help_printed>>

\* main.rs get_contents: [ok, kind, message, help]; help says print_help() ran
Loaded == [ok |-> TRUE, kind |-> "none", message |-> <<>>, help |-> FALSE]
get_contents(f, readable, sin) ==
    IF f # "None"
    THEN IF readable THEN Loaded
         ELSE [ok |-> FALSE, kind |-> "NotFound",
               message |-> <<f, ": No such file or directory">>, help |-> FALSE]
    ELSE IF sin = "tty"
    THEN [ok |-> FALSE, kind |-> "Other", message |-> <<"No input file">>,
          help |-> TRUE]
    ELSE IF sin = "pipe" THEN Loaded
    ELSE [ok |-> FALSE, kind |-> "InvalidData",
          message |-> <<"stream did not contain valid UTF-8">>, help |-> FALSE]

GetContents == get_contents(file, file_readable, stdin)

\* what main writes to the standard error for the error e, main.rs 39-45
MainStderrAlways(e) == Append(e.message, "\n")
MainStderr(e) ==
    IF e.kind = "Other" /\ e.message = <<"No input file">> THEN <<>>
    ELSE Append(e.message, "\n")

EditorContents(cy) ==
    get_editor_contents(main_contents, term_width, term_height, 0, cy, overflow_checks)

\* main returns Err through `?`: the process ends with code 1 and the cleanup
\* of main.rs 143-147 is not reached
ReturnErr(io, pc) ==
    /\ SetIo(ProcessEnd(io))
    /\ main_pc' = pc
    /\ exit_code' = "1"

\* a panic after the hook is installed: the process ends with code 101
PanicExit(io) ==
    /\ SetIo(Panic(io))
    /\ main_pc' = "done_panic"
    /\ exit_code' = "101"

\* the terminal queues an event
Arrive ==
    /\ main_pc \in {"read", "drain"}
    /\ Len(events) < MaxQueue
    /\ \E e \in EventKinds : events' = Append(events, e)
    /\ UNCHANGED <<main_pc, event, main_cursor_y, editor_contents, screen,
                   stdout_buf, tty, calls, exit_code, MainConfig, start_out,
                   drained, wrap_vars, contents_vars, status_vars>>

\* get_contents fails, main.rs 37-48: the help text or the error is written
\* and exit(1) ends the process before the terminal is touched
GetContentsFails ==
    /\ main_pc = "start"
    /\ ~GetContents.ok
    /\ help_printed' = GetContents.help
    /\ stderr' = MainStderr(GetContents)
    /\ main_pc' = "done_start_error"
    /\ exit_code' = "1"
    /\ UNCHANGED <<events, event, main_cursor_y, editor_contents, screen,
                   stdout_buf, tty, calls, MainConfig, drained, wrap_vars,
                   contents_vars, status_vars>>

\* main.rs 50-72 with no failure: the loop is entered
Setup ==
    /\ main_pc = "start"
    /\ GetContents.ok
    /\ ~EditorContents(0).panicked
    /\ SetIo(EnterTerminal(IoNow))
    /\ editor_contents' = EditorContents(0).text
    /\ screen' = print_screen(EditorContents(0).text)
    /\ main_pc' = "read"
    /\ UNCHANGED <<events, event, main_cursor_y, exit_code, MainConfig,
                   start_out, drained, wrap_vars, contents_vars, status_vars>>

\* main.rs 50-70: get_editor_contents panics
SetupPanics ==
    /\ main_pc = "start"
    /\ GetContents.ok
    /\ EditorContents(0).panicked
    /\ PanicExit(EnterTerminal(IoNow))
    /\ UNCHANGED <<events, event, main_cursor_y, editor_contents, screen,
                   MainConfig, start_out, drained, wrap_vars, contents_vars,
                   status_vars>>

\* main.rs 50-72: print_screen returns an error
SetupPrintFails ==
    /\ main_pc = "start"
    /\ GetContents.ok
    /\ ~EditorContents(0).panicked
    /\ editor_contents' = EditorContents(0).text
    /\ ReturnErr(EnterTerminal(IoNow), "done_setup_error")
    /\ UNCHANGED <<events, event, main_cursor_y, screen, MainConfig,
                   start_out, drained, wrap_vars, contents_vars, status_vars>>

\* the event the blocking read() of main.rs 75 returns
ReadLastEvent(q) == q[Len(q)]
ReadEvent(q) == Head(q)

\* main.rs 75: let event = read()?
Read ==
    /\ main_pc = "read"
    /\ events # <<>>
    /\ event' = ReadEvent(events)
    /\ events' = Tail(events)
    /\ main_pc' = "drain"
    /\ drained' = FALSE
    /\ UNCHANGED <<main_cursor_y, editor_contents, screen, stdout_buf, tty,
                   calls, exit_code, MainConfig, start_out, wrap_vars,
                   contents_vars, status_vars>>

\* main.rs 75: read() returns an error
ReadFails ==
    /\ main_pc = "read"
    /\ ReturnErr(IoNow, "done_io_error")
    /\ UNCHANGED <<events, event, main_cursor_y, editor_contents, screen,
                   MainConfig, start_out, drained, wrap_vars, contents_vars,
                   status_vars>>

\* main.rs 78-80: poll says an event is waiting, read() takes it, it is dropped
DrainOverwrites ==
    /\ main_pc = "drain"
    /\ events # <<>>
    /\ events' = Tail(events)
    /\ drained' = TRUE
    /\ event' = Head(events)
    /\ UNCHANGED <<main_pc, main_cursor_y, editor_contents, screen,
                   stdout_buf, tty, calls, exit_code, MainConfig, start_out,
                   wrap_vars, contents_vars, status_vars>>
DrainOne ==
    /\ main_pc = "drain"
    /\ events # <<>>
    /\ events' = Tail(events)
    /\ drained' = TRUE
    /\ UNCHANGED <<main_pc, event, main_cursor_y, editor_contents, screen,
                   stdout_buf, tty, calls, exit_code, MainConfig, start_out,
                   wrap_vars, contents_vars, status_vars>>

\* main.rs 78-79: poll() or the read() of the drain returns an error
DrainFails ==
    /\ main_pc = "drain"
    /\ ReturnErr(IoNow, "done_io_error")
    /\ UNCHANGED <<events, event, main_cursor_y, editor_contents, screen,
                   MainConfig, start_out, drained, wrap_vars, contents_vars,
                   status_vars>>

\* poll says nothing is waiting: the match of main.rs 83 is reached
AtMatch == main_pc = "drain" /\ events = <<>>

\* main.rs 84-91 and 143-148: Ctrl+W breaks the loop, the cleanup runs
DispatchQuit ==
    /\ AtMatch
    /\ event = "CtrlW"
    /\ SetIo(ProcessEnd(RunCalls(IoNow, Cleanup)))
    /\ main_pc' = "done_quit"
    /\ exit_code' = "0"
    /\ UNCHANGED <<events, event, main_cursor_y, editor_contents, screen,
                   MainConfig, start_out, drained, wrap_vars, contents_vars,
                   status_vars>>

\* the cursor after Up, main.rs 99-108
UpCursor(cy) ==
    LET c1 == IF cy = 0 THEN 0 ELSE cy - 1 IN
    IF Len(Lines(EditorContents(c1).text)) < term_height
    THEN (IF c1 = 0 THEN 0 ELSE c1 + 1)
    ELSE c1

\* the cursor after Down, main.rs 119-128 (cursor_y stays far below 2^16: it
\* never exceeds the number of rows)
DownCursorNoCeiling(cy) == cy + 1
DownCursor(cy) ==
    LET c1 == cy + 1 IN
    IF Len(Lines(EditorContents(c1).text)) < term_height THEN c1 - 1 ELSE c1

\* main.rs 93-131: Up or Down; print_screen succeeds or returns an error
DispatchScroll ==
    /\ AtMatch
    /\ event \in {"Up", "Down"}
    /\ LET cy == IF event = "Up" THEN UpCursor(main_cursor_y)
                 ELSE DownCursor(main_cursor_y)
       IN /\ main_cursor_y' = cy
          /\ editor_contents' = EditorContents(cy).text
          /\ \/ /\ screen' = print_screen(EditorContents(cy).text)
                /\ main_pc' = "read"
                /\ event' = "none"
                /\ UNCHANGED <<stdout_buf, tty, calls, exit_code>>
             \/ /\ ReturnErr(IoNow, "done_io_error")
                /\ UNCHANGED <<screen, event>>
    /\ UNCHANGED <<events, MainConfig, start_out, drained, wrap_vars,
                   contents_vars, status_vars>>

\* main.rs 134-138: todo!() panics
DispatchTodo ==
    /\ AtMatch
    /\ event \in TodoEvents
    /\ PanicExit(IoNow)
    /\ UNCHANGED <<events, event, main_cursor_y, editor_contents, screen,
                   MainConfig, start_out, drained, wrap_vars, contents_vars,
                   status_vars>>

\* main.rs 139: any other event
DispatchOther ==
    /\ AtMatch
    /\ event = "OtherKey"
    /\ main_pc' = "read"
    /\ event' = "none"
    /\ UNCHANGED <<events, main_cursor_y, editor_contents, screen, stdout_buf,
                   tty, calls, exit_code, MainConfig, start_out, drained,
                   wrap_vars, contents_vars, status_vars>>

MainNext ==
    \/ Arrive
    \/ GetContentsFails
    \/ Setup
    \/ SetupPanics
    \/ SetupPrintFails
    \/ Read
    \/ ReadFails
    \/ DrainOne
    \/ DrainFails
    \/ DispatchQuit
    \/ DispatchScroll
    \/ DispatchTodo
    \/ DispatchOther

SpecMain == MainInit /\ [][MainNext]_vars

Restored == tty.cursor /\ ~tty.raw /\ ~tty.alt

(***************************************************************************)
(* C8, as claimed.  Last-applies draining: of the events queued when the   *)
(* loop wakes, the one the iteration acts upon is the last.                *)
(***************************************************************************)
C8_LastApplies ==
    [][(main_pc = "read" /\ main_pc' = "drain")
          => event' = events[Len(events)]]_vars

(***************************************************************************)
(* C8, amended.  Of the events e1..en queued when the loop wakes, the one  *)
(* the iteration acts upon is the first, e1; the drain changes nothing but *)
(* the queue, and the match is reached only once the queue is empty, so    *)
(* e2..en have no effect.                                                  *)
(***************************************************************************)
C8_FirstApplies ==
    /\ [][(main_pc = "read" /\ main_pc' = "drain")
             => (event' = Head(events) /\ events' = Tail(events))]_vars
    /\ [][(main_pc = "drain" /\ main_pc' = "drain")
             => UNCHANGED <<event, main_cursor_y, screen, stdout_buf, tty, calls,
                            exit_code>>]_vars
    /\ [][(main_pc = "drain" /\ main_pc' \in {"read", "done_quit", "done_panic"})
             => events = <<>>]_vars
    /\ [][(main_pc = "drain" /\ main_pc' = "done_quit") => event = "CtrlW"]_vars
    /\ [][(main_pc = "drain" /\ main_pc' = "done_panic")
             => event \in TodoEvents]_vars
    /\ [][(main_pc = "drain" /\ main_cursor_y' # main_cursor_y)
             => event \in {"Up", "Down"}]_vars

C8_Witness ==
    /\ main_pc = "drain"
    /\ events # <<>>
    /\ event # events[Len(events)]

(***************************************************************************)
(* C9, as claimed.  Guaranteed terminal restoration: however the process   *)
(* ends once alternate screen and raw mode were entered (Ctrl+W, a panic,  *)
(* an error from read, poll or print_screen), the cursor is shown and raw  *)
(* mode and the alternate screen are left.                                 *)
(***************************************************************************)
C9_TerminalRestored ==
    main_pc \in {"done_quit", "done_panic", "done_io_error"} => Restored

(***************************************************************************)
(* C10.  A panic after the hook is installed runs the cleanup exactly once *)
(* and in the order show cursor, leave raw mode, leave alternate screen,   *)
(* flush; the default panic handler comes after them; the end-of-loop      *)
(* cleanup does not run as well; and the terminal is restored.             *)
(***************************************************************************)
CallPositions(c) == {k \in 1..Len(calls) : calls[k] = c}

C10_PanicCleanupOnce ==
    main_pc = "done_panic" =>
        /\ \A c \in {"Show", "disable_raw_mode", "LeaveAlternateScreen", "flush",
                     "default_hook"} : Cardinality(CallPositions(c)) = 1
        /\ \A k \in CallPositions("Show") :
             \A l \in CallPositions("disable_raw_mode") : k < l
        /\ \A k \in CallPositions("disable_raw_mode") :
             \A l \in CallPositions("LeaveAlternateScreen") : k < l
        /\ \A k \in CallPositions("LeaveAlternateScreen") :
             \A l \in CallPositions("flush") : k < l
        /\ \A k \in CallPositions("flush") :
             \A l \in CallPositions("default_hook") : k < l
        /\ Restored
        /\ stdout_buf = <<>>

C10_Witness ==
    /\ main_pc = "done_panic"
    /\ event \in TodoEvents
    /\ main_cursor_y > 0


(***************************************************************************)
(* C11, as claimed.  A terminal-resize event the loop acts upon is handled *)
(* by laying out and rendering again, after which the loop keeps running:  *)
(* the step that leaves the match with event = Resize (an error returned   *)
(* by poll apart) goes back to read() with the process still running, and  *)
(* with a screen rendered at the cursor position.                          *)
(***************************************************************************)
C11_ResizeRerenders ==
    [][(/\ main_pc = "drain"
        /\ event = "Resize"
        /\ main_pc' \notin {"drain", "done_io_error"})
       => (/\ main_pc' = "read"
           /\ exit_code' = "running"
           /\ screen' = print_screen(EditorContents(main_cursor_y').text))]_vars


(***************************************************************************)
(* C12.  Scroll bounds.  N is the number of rows the whole document is     *)
(* rendered into and h the terminal height: main_cursor_y always lies in   *)
(* 0..max(0, N - h); an Up the loop acts upon takes 1 from it except at 0, *)
(* where it stays 0; a Down the loop acts upon adds 1 to it except at      *)
(* max(0, N - h), where it stays.                                          *)
(***************************************************************************)
RenderedRows ==
    Len(Lines(get_editor_contents(main_contents, term_width, U16 - 1, 0, 0,
                                  overflow_checks).text))

MaxScroll == Max(0, RenderedRows - term_height)

C12_ScrollBounds ==
    /\ [](main_pc \in {"read", "drain", "done_quit", "done_io_error", "done_panic"}
             => main_cursor_y \in 0..MaxScroll)
    /\ [][(AtMatch /\ event = "Up" /\ main_pc' = "read")
             => main_cursor_y' = (IF main_cursor_y = 0 THEN 0
                                  ELSE main_cursor_y - 1)]_vars
    /\ [][(AtMatch /\ event = "Down" /\ main_pc' = "read")
             => main_cursor_y' = (IF main_cursor_y = MaxScroll THEN main_cursor_y
                                  ELSE main_cursor_y + 1)]_vars
    /\ [][main_cursor_y' # main_cursor_y
             => (AtMatch /\ event \in {"Up", "Down"})]_vars

C12_Witness ==
    /\ main_pc = "read"
    /\ MaxScroll >= 2
    /\ main_cursor_y = MaxScroll


(***************************************************************************)
(* C13.  Pre-loop failures never touch the terminal mode.  When the named  *)
(* file cannot be read, or no file is given and stdin is a terminal, the   *)
(* process never enters the alternate screen, raw mode or the event loop   *)
(* and ends with a nonzero code; in the file case the standard error holds *)
(* "<path>: No such file or directory" and no help is printed; in the      *)
(* no-input case the help text is printed and the standard error is empty. *)
(***************************************************************************)
FileCase == file # "None" /\ ~file_readable
NoInputCase == file = "None" /\ stdin = "tty"

C13_PreLoopFailure ==
    /\ (FileCase \/ NoInputCase)
          => /\ main_pc \in {"start", "done_start_error"}
             /\ tty = [alt |-> FALSE, raw |-> FALSE, cursor |-> TRUE]
             /\ stdout_buf = <<>>
             /\ calls = <<>>
             /\ screen = <<>>
    /\ (main_pc = "done_start_error" /\ FileCase)
          => /\ exit_code \notin {"running", "0"}
             /\ stderr = <<file, ": No such file or directory", "\n">>
             /\ ~help_printed
    /\ (main_pc = "done_start_error" /\ NoInputCase)
          => /\ exit_code \notin {"running", "0"}
             /\ help_printed
             /\ stderr = <<>>

C13_Witness ==
    /\ main_pc = "done_start_error"
    /\ NoInputCase
    /\ help_printed

(***************************************************************************)
(* C22, as claimed.  For every document, width w, height h and cursor_y,   *)
(* get_editor_contents(contents, w, h, 0, cursor_y) returns the rows       *)
(* cursor_y <= r < cursor_y + h of the wrapped document with its gutter    *)
(* (the line number flush right and a space before the first piece of a    *)
(* line, blanks before the others), joined by single line feeds with none  *)
(* at the end; every call main makes returns, with that value.             *)
(***************************************************************************)
GutterWidth == NumDigits(Len(Lines(main_contents)))

\* the rows of line k: its pieces at the wrap width, each behind the gutter
GutterRowsOf(line, k) ==
    LET pieces == split_string_by_width(line, term_width - GutterWidth - 1)
        number == ToString(k)
        gutter == Spaces(GutterWidth - Len(number)) \o number \o <<" ">>
    IN IF pieces = <<>> THEN <<gutter>>
       ELSE [j \in 1..Len(pieces) |->
               (IF j = 1 THEN gutter ELSE Spaces(GutterWidth + 1)) \o pieces[j]]

RECURSIVE GutterRowsFrom(_)
GutterRowsFrom(k) ==
    IF k > Len(Lines(main_contents)) THEN <<>>
    ELSE GutterRowsOf(Lines(main_contents)[k], k) \o GutterRowsFrom(k + 1)

RECURSIVE JoinedByLf(_)
JoinedByLf(rows) ==
    IF rows = <<>> THEN <<>>
    ELSE IF Len(rows) = 1 THEN rows[1]
    ELSE rows[1] \o <<"\n">> \o JoinedByLf(Tail(rows))

RowsInWindow ==
    LET rows == GutterRowsFrom(1) IN
    SubSeq(rows, main_cursor_y + 1, Min(main_cursor_y + term_height, Len(rows)))

C22_RowsInWindow ==
    /\ main_pc \in {"read", "drain"} => editor_contents = JoinedByLf(RowsInWindow)
    /\ main_pc = "done_panic" => event \in TodoEvents

\* the same where the width leaves room for the gutter and its space
C22_RowsInWindowBesideGutter ==
    term_width >= GutterWidth + 1 => C22_RowsInWindow

(***************************************************************************)
(* C24.  The events the drain consumes have no effect, whatever their      *)
(* kind: the step that drops one changes neither the cursor, the rendered  *)
(* text, the terminal, the place in the loop nor the event the iteration   *)
(* holds, and ends nothing.  An iteration acts on one event at most: the   *)
(* event it holds is set by the read() at its head alone, and the cursor,  *)
(* the rendering and the end of the loop change only at the match on it.   *)
(***************************************************************************)
C24_DrainedEventsInert ==
    /\ [][(main_pc = "drain" /\ events # <<>> /\ events' = Tail(events))
             => UNCHANGED <<main_pc, event, main_cursor_y, editor_contents, screen,
                            stdout_buf, tty, calls, exit_code, stderr,
                            help_printed>>]_vars
    /\ [][event' # event
             => \/ main_pc = "read" /\ main_pc' = "drain" /\ event' = Head(events)
                \/ AtMatch /\ main_pc' = "read" /\ event' = "none"]_vars
    /\ [][(/\ main_pc = "drain"
           /\ \/ <<main_cursor_y, editor_contents, screen>>'
                    # <<main_cursor_y, editor_contents, screen>>
              \/ main_pc' \in {"read", "done_quit", "done_panic"})
             => AtMatch]_vars

C24_Witness ==
    /\ main_pc = "read"
    /\ drained
    /\ main_cursor_y = 1
    /\ exit_code = "running"


(***************************************************************************)
(* SpecStatusBar: a StatusBar, built with StatusBarItem::new and add_item  *)
(* and printed                                                             *)
(***************************************************************************)
MaxAdds == 3

\* the names, the values and the widths the caller uses
BarNames == {"x", "y", "z"}
BarValues == {<<>>, <<"a">>, <<"\n">>, <<"\n", "\n">>, <<"\n", "a", "\n">>}
BarWidths == {0, 2}

\* String::replace('\n', " "), character by character
KeepChar(c) == c
ReplaceLf(c) == IF c = "\n" THEN " " ELSE c

\* StatusBarItem::new
StatusBarItemNew(name, value) ==
    [name |-> name, value |-> [k \in 1..Len(value) |-> ReplaceLf(value[k])]]

\* the test of the scan of add_item, status_bar.rs 56
NameAndValueMatch(a, b) == a.name = b.name /\ a.value = b.value
NameMatches(a, b) == a.name = b.name

\* self.items[i] = item, status_bar.rs 57 (i counted from 1)
MoveToEnd(its, k, it) ==
    Append(SubSeq(its, 1, k - 1) \o SubSeq(its, k + 1, Len(its)), it)
ReplaceAt(its, k, it) == [its EXCEPT ![k] = it]

\* the for loop of add_item from index k on, and the push after it
RECURSIVE AddItemFrom(_, _, _)
AddItemFrom(its, k, it) ==
    IF k > Len(its) THEN Append(its, it)
    ELSE IF NameMatches(its[k], it) THEN ReplaceAt(its, k, it)
    ELSE AddItemFrom(its, k + 1, it)

\* StatusBar::add_item
add_item(its, it) == AddItemFrom(its, 1, it)

\* the test that leaves the separator out, status_bar.rs 83
IsLastByValue(its, it) == it.value = its[Len(its)].value
IsLast(its, it) == it.name = its[Len(its)].name

\* the for_each of StatusBar::print from index k on, status_bar.rs 79-86
RECURSIVE PrintItemsFrom(_, _)
PrintItemsFrom(its, k) ==
    IF k > Len(its) THEN <<>>
    ELSE its[k].value
            \o (IF ~IsLast(its, its[k]) THEN <<" ">> ELSE <<>>)
            \o PrintItemsFrom(its, k + 1)

\* the row fill, status_bar.rs 66-75: MoveTo(0, y_start), reverse video, the
\* row of blanks, MoveTo(0, y_start)
RowFill(w) == <<"MoveTo", "ESC[7m">> \o Spaces(w) \o <<"MoveTo">>

\* StatusBar::print: what it queues when no write fails
StatusBarPrint(its, w) == RowFill(w) \o PrintItemsFrom(its, 1) \o <<"ResetColor">>

\* StatusBar::new
StatusInit ==
    /\ items = <<>>
    /\ item = <<>>
    /\ new_value = <<>>
    /\ bar_width \in BarWidths
    /\ bar_out = <<>>
    /\ bar_ret = "none"
    /\ adds = 0
    /\ inserted = <<>>
    /\ overflow_checks = FALSE
    /\ WrapIdle /\ ContentsIdle /\ MainIdle

\* let item = StatusBarItem::new(name, value)
NewItem ==
    /\ bar_ret # "panic"
    /\ adds < MaxAdds
    /\ item = <<>>
    /\ \E name \in BarNames, value \in BarValues :
         /\ item' = <<StatusBarItemNew(name, value)>>
         /\ new_value' = value
    /\ UNCHANGED <<items, bar_width, bar_out, bar_ret, adds, inserted,
                   wrap_vars, contents_vars, main_vars, overflow_checks>>

\* status_bar.add_item(item)
AddItem ==
    /\ bar_ret # "panic"
    /\ item # <<>>
    /\ items' = add_item(items, item[1])
    /\ item' = <<>>
    /\ adds' = adds + 1
    /\ inserted' = IF \E k \in 1..Len(inserted) : inserted[k] = item[1].name
                   THEN inserted ELSE Append(inserted, item[1].name)
    /\ UNCHANGED <<new_value, bar_width, bar_out, bar_ret,
                   wrap_vars, contents_vars, main_vars, overflow_checks>>

\* status_bar.print(): every write succeeds, or one fails and unwrap() panics
BarPrint ==
    /\ bar_ret # "panic"
    /\ \/ /\ bar_out' = StatusBarPrint(items, bar_width)
          /\ bar_ret' = "ok"
       \/ /\ bar_out' = <<>>
          /\ bar_ret' = "panic"
    /\ UNCHANGED <<items, item, new_value, bar_width, adds, inserted,
                   wrap_vars, contents_vars, main_vars, overflow_checks>>

StatusNext == NewItem \/ AddItem \/ BarPrint

SpecStatusBar == StatusInit /\ [][StatusNext]_vars

(***************************************************************************)
(* C15.  After any sequence of add_item calls no two entries of `items`    *)
(* have equal names.                                                       *)
(***************************************************************************)
C15_UniqueNames ==
    \A j, k \in 1..Len(items) : j # k => items[j].name # items[k].name

C15_Witness ==
    /\ Len(items) >= 2
    /\ adds > Len(items)

(***************************************************************************)
(* C16.  add_item(item) with a name already present puts item at that      *)
(* entry's position and leaves the length of `items` and every other entry *)
(* as they were; with a name not present it appends item and leaves the    *)
(* existing entries as they were.  Hence the names of `items` are always   *)
(* in the order of their first insertion.                                  *)
(***************************************************************************)
NamesOf(its) == [k \in 1..Len(its) |-> its[k].name]

C16_ReplaceInPlaceOrAppend ==
    /\ [][adds' = adds + 1
            => LET it == item[1]
                   present == \E k \in 1..Len(items) : items[k].name = it.name
               IN IF present
                  THEN /\ Len(items') = Len(items)
                       /\ \A k \in 1..Len(items) :
                            IF items[k].name = it.name
                            THEN items'[k] = it
                            ELSE items'[k] = items[k]
                  ELSE /\ Len(items') = Len(items) + 1
                       /\ items'[Len(items')] = it
                       /\ \A k \in 1..Len(items) : items'[k] = items[k]]_vars
    /\ [](NamesOf(items) = inserted)

C16_Witness ==
    /\ adds = 3
    /\ Len(items) = 2
    /\ item = <<>>
    /\ items[1].value = [k \in 1..Len(new_value) |-> ReplaceLf(new_value[k])]
    /\ items[1].value # items[2].value

(***************************************************************************)
(* C17.  No value stored in a StatusBar, or in a StatusBarItem, contains a *)
(* newline: StatusBarItem::new gives a value of the length of its argument *)
(* with a space wherever the argument has a line feed and the argument's   *)
(* character everywhere else, and add_item and print leave values alone.   *)
(***************************************************************************)
HasLf(str) == \E k \in 1..Len(str) : str[k] = "\n"

C17_NoNewlineInValues ==
    /\ [](\A k \in 1..Len(items) : ~HasLf(items[k].value))
    /\ [](item # <<>>
            => /\ ~HasLf(item[1].value)
               /\ Len(item[1].value) = Len(new_value)
               /\ \A k \in 1..Len(new_value) :
                    item[1].value[k] = (IF new_value[k] = "\n" THEN " "
                                        ELSE new_value[k]))
    /\ [][\A k \in 1..Len(items') :
            \/ k <= Len(items) /\ items'[k].value = items[k].value
            \/ item # <<>> /\ items'[k] = item[1]]_vars

C17_Witness ==
    /\ item # <<>>
    /\ new_value = <<"\n", "a", "\n">>
    /\ item[1].value = <<" ", "a", " ">>
    /\ Len(items) >= 1

(***************************************************************************)
(* C18.  StatusBar::print writes, after the row fill, the values of        *)
(* `items` in order, one space after every item but the last and none      *)
(* after the last, also where several items have equal values.             *)
(***************************************************************************)
RECURSIVE JoinedBySpace(_)
JoinedBySpace(values) ==
    IF values = <<>> THEN <<>>
    ELSE IF Len(values) = 1 THEN values[1]
    ELSE values[1] \o <<" ">> \o JoinedBySpace(Tail(values))

ValuesOf(its) == [k \in 1..Len(its) |-> its[k].value]

C18_ValuesJoinedBySpaces ==
    [][(<<bar_out, bar_ret>>' # <<bar_out, bar_ret>> /\ bar_ret' = "ok")
          => bar_out' = RowFill(bar_width) \o JoinedBySpace(ValuesOf(items))
                           \o <<"ResetColor">>]_vars

C18_Witness ==
    /\ bar_ret = "ok"
    /\ Len(items) = 3
    /\ items[1].value = items[3].value
    /\ items[2].value # items[3].value
    /\ bar_out = RowFill(bar_width) \o JoinedBySpace(ValuesOf(items))
                    \o <<"ResetColor">>

====
